---- MODULE Spec2Model ----
(***************************************************************************)
(* State-machine model of attendance_sqlite_app.py: the SQLite schema of   *)
(* init_db, the data-layer functions (add_*, mark_attendance_for_date,     *)
(* get_attendance_df) and the date-range pages built on them.              *)
(*                                                                         *)
(* Encoding of Python / SQL values:                                        *)
(*   - a str is a tuple of one-character strings, <<" ", "a">> is " a";    *)
(*   - a status text is a one-word tuple, <<"Present">>;                   *)
(*   - None (SQL NULL) is the tuple <<"None">>, which is no str above;     *)
(*   - a date is a day number; strftime("%Y-%m-%d") of the dates a         *)
(*     date_input yields is fixed-width, so the text order SQLite uses in  *)
(*     BETWEEN is the day order;                                           *)
(*   - a timestamp is the wall clock in whole seconds                      *)
(*     (isoformat(timespec='seconds')).                                    *)
(* A table is the set of its rows.  The attendance primary key (id) is not *)
(* kept: no statement of the program reads it.                             *)
(*                                                                         *)
(* unclosed is the number of connections that the last operation (a data-  *)
(* layer call or a page run) got from get_conn() and did not close(), and   *)
(* while calls run concurrently the number of ended calls whose connection  *)
(* is still open;                                                           *)
(* txn is the state of the calls that run concurrently, each on its own    *)
(* connection, and of SQLite's write lock.                                 *)
(***************************************************************************)
EXTENDS Integers, Sequences, FiniteSets, TLC

VARIABLES colleges, departments, courses, students, attendance,
          sqlite_sequence, now, lastCall, marked, ui, unclosed, txn

tables == <<colleges, departments, courses, students, attendance>>
vars == <<colleges, departments, courses, students, attendance,
          sqlite_sequence, now, lastCall, marked, ui, unclosed, txn>>

(* ----------------------------- bounds ---------------------------------- *)
MaxStudents == 2
MaxClock == 1

(* ----------------------------- values ---------------------------------- *)
None == <<"None">>
Present == <<"Present">>
Absent == <<"Absent">>
Late == <<"Late">>

Whitespace == {" "}

(* str.strip(): drop leading and trailing whitespace *)
RECURSIVE lstrip(_)
lstrip(s) == IF s # <<>> /\ Head(s) \in Whitespace THEN lstrip(Tail(s)) ELSE s

RECURSIVE rstrip(_)
rstrip(s) ==
    IF s # <<>> /\ s[Len(s)] \in Whitespace
    THEN rstrip(SubSeq(s, 1, Len(s) - 1))
    ELSE s

strip(s) == rstrip(lstrip(s))

(* Python truth value of an Optional[str] *)
truthy(x) == x # None /\ x # <<>>

(* the `roll.strip() if roll else None` of add_student *)
roll_param(roll) == IF truthy(roll) THEN strip(roll) ELSE None

(* get_conn() never issues PRAGMA foreign_keys = ON, so every connection    *)
(* runs with SQLite's default: foreign-key clauses are parsed, not enforced *)
foreign_keys == FALSE

(* ----------------------------- inputs ---------------------------------- *)
(* Names are unique per scope, so the name sets bound the first three      *)
(* tables; only students (any number may have no roll) need a cap.         *)
CollegeNames == {<<"a">>, <<"b">>, <<" ", "a">>}
Names == {<<"a">>, <<"a", " ">>}
StudentNames == {<<"a">>}
Rolls == {None, <<>>, <<" ">>, <<"r">>, <<"r", " ">>}
CollegeIds == {1, 2}
DepartmentIds == {1, 2}
CourseIds == {1, 2}

(* ----------------------------- schema ---------------------------------- *)
(* UNIQUE constraints of init_db; a NULL never equals a NULL in a UNIQUE   *)
(* index, so rows with a NULL roll never collide                           *)
CollegeUnique_always(name) == TRUE

CollegeUnique(name) == \A c \in colleges : c.name # name

DepartmentUnique(college_id, name) ==
    \A d \in departments : ~(d.college_id = college_id /\ d.name = name)

CourseUnique(department_id, name) ==
    \A c \in courses : ~(c.department_id = department_id /\ c.name = name)

StudentUnique(course_id, roll) ==
    roll = None \/ \A s \in students : ~(s.course_id = course_id /\ s.roll = roll)

(* FOREIGN KEY ... REFERENCES parent(id), checked only when the connection *)
(* has foreign_keys on                                                     *)
ParentOk(parentTable, parent_id) ==
    foreign_keys => \E p \in parentTable : p.id = parent_id

(* INTEGER PRIMARY KEY AUTOINCREMENT: one more than the largest id the     *)
(* table ever held                                                         *)
NextId(table) == sqlite_sequence[table] + 1

Bump(table) == [sqlite_sequence EXCEPT ![table] = @ + 1]

(* ------------------------- data layer: add_* ---------------------------- *)
add_college(name) ==
    LET n == strip(name) IN
    IF CollegeUnique(n)
    THEN /\ colleges' = colleges \cup {[id |-> NextId("colleges"), name |-> n]}
         /\ sqlite_sequence' = Bump("colleges")
         /\ lastCall' = [op |-> "add_college", name |-> name, ret |-> "True"]
         /\ unclosed' = 0
         /\ UNCHANGED <<departments, courses, students, attendance, now, marked, ui, txn>>
    ELSE /\ lastCall' = [op |-> "add_college", name |-> name, ret |-> "False"]
         /\ unclosed' = 0
         /\ UNCHANGED <<tables, sqlite_sequence, now, marked, ui, txn>>

add_department(college_id, name) ==
    LET n == strip(name) IN
    IF DepartmentUnique(college_id, n) /\ ParentOk(colleges, college_id)
    THEN /\ departments' = departments \cup
                {[id |-> NextId("departments"), college_id |-> college_id, name |-> n]}
         /\ sqlite_sequence' = Bump("departments")
         /\ lastCall' = [op |-> "add_department", parent |-> college_id,
                         name |-> name, ret |-> "True"]
         /\ unclosed' = 0
         /\ UNCHANGED <<colleges, courses, students, attendance, now, marked, ui, txn>>
    ELSE /\ lastCall' = [op |-> "add_department", parent |-> college_id,
                         name |-> name, ret |-> "False"]
         /\ unclosed' = 0
         /\ UNCHANGED <<tables, sqlite_sequence, now, marked, ui, txn>>

add_course(department_id, name) ==
    LET n == strip(name) IN
    IF CourseUnique(department_id, n) /\ ParentOk(departments, department_id)
    THEN /\ courses' = courses \cup
                {[id |-> NextId("courses"), department_id |-> department_id, name |-> n]}
         /\ sqlite_sequence' = Bump("courses")
         /\ lastCall' = [op |-> "add_course", parent |-> department_id,
                         name |-> name, ret |-> "True"]
         /\ unclosed' = 0
         /\ UNCHANGED <<colleges, departments, students, attendance, now, marked, ui, txn>>
    ELSE /\ lastCall' = [op |-> "add_course", parent |-> department_id,
                         name |-> name, ret |-> "False"]
         /\ unclosed' = 0
         /\ UNCHANGED <<tables, sqlite_sequence, now, marked, ui, txn>>

add_student(course_id, name, roll) ==
    LET n == strip(name)
        r == roll_param(roll) IN
    IF StudentUnique(course_id, r) /\ ParentOk(courses, course_id)
    THEN /\ NextId("students") <= MaxStudents
         /\ students' = students \cup
                {[id |-> NextId("students"), course_id |-> course_id,
                  roll |-> r, name |-> n]}
         /\ sqlite_sequence' = Bump("students")
         /\ lastCall' = [op |-> "add_student", parent |-> course_id,
                         name |-> name, roll |-> roll, ret |-> "True"]
         /\ unclosed' = 0
         /\ UNCHANGED <<colleges, departments, courses, attendance, now, marked, ui, txn>>
    ELSE /\ lastCall' = [op |-> "add_student", parent |-> course_id,
                         name |-> name, roll |-> roll, ret |-> "False"]
         /\ unclosed' = 0
         /\ UNCHANGED <<tables, sqlite_sequence, now, marked, ui, txn>>

(* ------------------- data layer: mark_attendance_for_date --------------- *)
(* INSERT ... ON CONFLICT(student_id, date) DO UPDATE SET status, timestamp *)
Upsert_insert_only(rows, student_id, date, status, ts) ==
    rows \cup {[student_id |-> student_id, date |-> date,
                status |-> status, timestamp |-> ts]}

Upsert_keep_timestamp(rows, student_id, date, status, ts) ==
    IF \E r \in rows : r.student_id = student_id /\ r.date = date
    THEN {IF r.student_id = student_id /\ r.date = date
          THEN [r EXCEPT !.status = status]
          ELSE r : r \in rows}
    ELSE rows \cup {[student_id |-> student_id, date |-> date,
                     status |-> status, timestamp |-> ts]}

Upsert_whole_date(rows, student_id, date, status, ts) ==
    IF \E r \in rows : r.student_id = student_id /\ r.date = date
    THEN {IF r.date = date
          THEN [r EXCEPT !.status = status, !.timestamp = ts]
          ELSE r : r \in rows}
    ELSE rows \cup {[student_id |-> student_id, date |-> date,
                     status |-> status, timestamp |-> ts]}

Upsert_do_nothing(rows, student_id, date, status, ts) ==
    IF \E r \in rows : r.student_id = student_id /\ r.date = date
    THEN rows
    ELSE rows \cup {[student_id |-> student_id, date |-> date,
                     status |-> status, timestamp |-> ts]}

Upsert(rows, student_id, date, status, ts) ==
    IF \E r \in rows : r.student_id = student_id /\ r.date = date
    THEN {IF r.student_id = student_id /\ r.date = date
          THEN [r EXCEPT !.status = status, !.timestamp = ts]
          ELSE r : r \in rows}
    ELSE rows \cup {[student_id |-> student_id, date |-> date,
                     status |-> status, timestamp |-> ts]}

(* one cur.execute of the loop: status TEXT NOT NULL, and the student      *)
(* foreign key when the connection enforces it                             *)
RowAccepted(student_id, status) ==
    /\ status # None
    /\ ParentOk(students, student_id)

Min(S) == CHOOSE x \in S : \A y \in S : x <= y

(* the for loop over student_status_map.items(), on the connection's       *)
(* uncommitted view of the table.  The keys of a dict are distinct, so the *)
(* upserts of one call touch distinct rows and the order of the items does *)
(* not change what a completed loop leaves; they are taken in ascending    *)
(* id.  A loop that raises stops there: rows holds what the statements     *)
(* before the failing one wrote on the connection, still uncommitted.      *)
RECURSIVE ExecuteBatch(_, _, _, _, _)
ExecuteBatch(rows, map, todo, date, ts) ==
    IF todo = {}
    THEN [ok |-> TRUE, rows |-> rows]
    ELSE LET sid == Min(todo) IN
         IF RowAccepted(sid, map[sid])
         THEN ExecuteBatch(Upsert(rows, sid, date, map[sid], ts),
                           map, todo \ {sid}, date, ts)
         ELSE [ok |-> FALSE, rows |-> rows]

(* the rows a call with this map and date addresses *)
Touched(rows, map, date) ==
    {r \in rows : r.student_id \in DOMAIN map /\ r.date = date}

(* An IntegrityError inside the loop is not caught: the call ends before   *)
(* conn.commit(), and the pending statements are rolled back when the      *)
(* connection is discarded.  lastCall records the call, the rows it        *)
(* addressed as they were before it, and how it ended; marked is the       *)
(* history of the statuses handed to the calls that returned: the latest   *)
(* <<student, date, status>> per student and date.                         *)
Persisted_partial(before, done) == done.rows

(* what conn.commit() after the loop makes durable: everything, or nothing  *)
(* when the loop raised before reaching it                                  *)
Persisted(before, done) == IF done.ok THEN done.rows ELSE before

mark_call(student_status_map, date_str) ==
    LET ts == now
        done == ExecuteBatch(attendance, student_status_map,
                             DOMAIN student_status_map, date_str, ts) IN
    /\ attendance' = Persisted(attendance, done)
    /\ lastCall' = [op |-> "mark_attendance_for_date", map |-> student_status_map,
                    date |-> date_str, ts |-> ts,
                    before |-> Touched(attendance, student_status_map, date_str),
                    ret |-> IF done.ok THEN "True" ELSE "IntegrityError"]
    /\ marked' = IF done.ok
                 THEN {t \in marked : ~(t[1] \in DOMAIN student_status_map /\ t[2] = date_str)}
                      \cup {<<sid, date_str, student_status_map[sid]>> :
                                sid \in DOMAIN student_status_map}
                 ELSE marked
    /\ UNCHANGED <<colleges, departments, courses, students, sqlite_sequence, now, txn>>

(* conn.close() is reached only after the commit: a call that raises        *)
(* leaves its connection open                                               *)
mark_attendance_for_date(student_status_map, date_str) ==
    /\ mark_call(student_status_map, date_str)
    /\ unclosed' = (IF lastCall'.ret = "True" THEN 0 ELSE 1)
    /\ UNCHANGED ui

(* the wall clock read by datetime.now(), in whole seconds *)
Tick ==
    /\ now < MaxClock
    /\ now' = now + 1
    /\ UNCHANGED <<tables, sqlite_sequence, lastCall, marked, ui, unclosed, txn>>

(* -------------- concurrent mark_attendance_for_date calls --------------- *)
(* Two sessions of the app, each running mark_attendance_for_date on its    *)
(* own connection, interleaved statement by statement.  The first INSERT of *)
(* a call opens the connection's implicit transaction and takes SQLite's    *)
(* write lock, which the call holds until its commit; txn.lock is its       *)
(* holder.  A call's statements act on its own view of the table, which     *)
(* becomes the table at its commit.                                         *)
Sessions == {"A", "B"}
Idle == [pc |-> "idle"]
Failed == [pc |-> "failed"]
Other(p) == CHOOSE q \in Sessions : q # p

Unclosed(calls) == Cardinality({q \in Sessions : calls[q].pc = "failed"})

(* get_conn(), conn.cursor() and ts = datetime.now(): nothing is locked yet *)
race_begin(p, student_status_map, date_str) ==
    /\ txn.calls[p].pc = "idle"
    /\ txn' = [txn EXCEPT !.calls =
                  [q \in Sessions |->
                      IF q = p
                      THEN [pc |-> "loop", map |-> student_status_map,
                            date |-> date_str, ts |-> now,
                            todo |-> DOMAIN student_status_map, view |-> {},
                            overlapped |-> txn.calls[Other(p)].pc = "loop"]
                      ELSE IF txn.calls[q].pc = "loop"
                           THEN [txn.calls[q] EXCEPT !.overlapped = TRUE]
                           ELSE txn.calls[q]]]
    /\ UNCHANGED <<tables, sqlite_sequence, now, lastCall, marked, ui, unclosed>>

(* one cur.execute of the loop, when no other connection holds the write    *)
(* lock: the statement takes the lock (also when it then fails its NOT NULL *)
(* check) and upserts into the view; a failing statement raises, and the    *)
(* call ends with its connection open and the lock held                     *)
race_execute(p) ==
    LET c == txn.calls[p] IN
    /\ c.pc = "loop" /\ c.todo # {}
    /\ txn.lock \in {"none", p}
    /\ LET sid == Min(c.todo)
           base == IF txn.lock = p THEN c.view ELSE attendance IN
       txn' = IF RowAccepted(sid, c.map[sid])
              THEN [txn EXCEPT !.lock = p,
                               !.calls[p] = [c EXCEPT !.todo = c.todo \ {sid},
                                                      !.view = Upsert(base, sid, c.date,
                                                                      c.map[sid], c.ts)]]
              ELSE [txn EXCEPT !.lock = p, !.calls[p] = Failed]
    /\ unclosed' = Unclosed(txn'.calls)
    /\ UNCHANGED <<tables, sqlite_sequence, now, lastCall, marked, ui>>

(* the first cur.execute of a call while the other connection holds the     *)
(* write lock: the statement waits, and when the connection's timeout (5 s) *)
(* passes before the lock is free it raises OperationalError                *)
race_busy(p) ==
    LET c == txn.calls[p] IN
    /\ c.pc = "loop" /\ c.todo # {}
    /\ txn.lock = Other(p)
    /\ txn' = [txn EXCEPT !.calls[p] = Failed]
    /\ unclosed' = Unclosed(txn'.calls)
    /\ UNCHANGED <<tables, sqlite_sequence, now, lastCall, marked, ui>>

(* conn.commit(), conn.close(), return True *)
race_commit(p) ==
    LET c == txn.calls[p] IN
    /\ c.pc = "loop" /\ c.todo = {}
    /\ attendance' = IF txn.lock = p THEN c.view ELSE attendance
    /\ txn' = [txn EXCEPT !.lock = IF txn.lock = p THEN "none" ELSE txn.lock,
                          !.calls[p] = Idle,
                          !.last = [pc |-> "committed", session |-> p,
                                    overlapped |-> c.overlapped]]
    /\ lastCall' = [op |-> "mark_attendance_for_date", map |-> c.map,
                    date |-> c.date, ts |-> c.ts,
                    before |-> Touched(attendance, c.map, c.date),
                    ret |-> "True"]
    /\ marked' = {t \in marked : ~(t[1] \in DOMAIN c.map /\ t[2] = c.date)}
                 \cup {<<sid, c.date, c.map[sid]>> : sid \in DOMAIN c.map}
    /\ unclosed' = Unclosed(txn'.calls)
    /\ UNCHANGED <<colleges, departments, courses, students, sqlite_sequence, now, ui>>

(* the connection of a call that raised is closed when the interpreter      *)
(* collects it: its pending statements are rolled back, its lock is freed   *)
race_collect(p) ==
    /\ txn.calls[p].pc = "failed"
    /\ txn' = [txn EXCEPT !.lock = IF txn.lock = p THEN "none" ELSE txn.lock,
                          !.calls[p] = Idle]
    /\ unclosed' = Unclosed(txn'.calls)
    /\ UNCHANGED <<tables, sqlite_sequence, now, lastCall, marked, ui>>

(* --------------------- schema: deleting a college ----------------------- *)
(* DELETE FROM colleges WHERE id = ? on a connection from get_conn().  The  *)
(* ON DELETE CASCADE clauses of init_db act only when foreign_keys is on.   *)
DepartmentsOf(collegeRows) ==
    {d \in departments : \E c \in collegeRows : d.college_id = c.id}

CoursesOf(departmentRows) ==
    {c \in courses : \E d \in departmentRows : c.department_id = d.id}

StudentsOf(courseRows) ==
    {s \in students : \E c \in courseRows : s.course_id = c.id}

AttendanceOf(studentRows) ==
    {a \in attendance : \E s \in studentRows : a.student_id = s.id}

delete_college(college_id) ==
    LET gone == {c \in colleges : c.id = college_id}
        goneDepartments == DepartmentsOf(gone)
        goneCourses == CoursesOf(goneDepartments)
        goneStudents == StudentsOf(goneCourses)
        goneAttendance == AttendanceOf(goneStudents) IN
    /\ colleges' = colleges \ gone
    /\ IF foreign_keys
       THEN /\ departments' = departments \ goneDepartments
            /\ courses' = courses \ goneCourses
            /\ students' = students \ goneStudents
            /\ attendance' = attendance \ goneAttendance
       ELSE UNCHANGED <<departments, courses, students, attendance>>
    /\ lastCall' = [op |-> "delete_college", id |-> college_id, ret |-> "True"]
    /\ unclosed' = 0
    /\ UNCHANGED <<sqlite_sequence, now, marked, ui, txn>>

(* -------------------- data layer: get_attendance_df --------------------- *)
(* attendance JOIN students JOIN courses JOIN departments JOIN colleges:    *)
(* one row per attendance row whose whole ancestor chain exists.  The       *)
(* result is kept as the set of its rows: what the pages compute from it    *)
(* below does not depend on the ORDER BY.                                   *)
JoinedRows ==
    {[student_id |-> s.id, student_name |-> s.name, roll |-> s.roll,
      course_id |-> c.id, course |-> c.name,
      department_id |-> d.id, department |-> d.name,
      college_id |-> co.id, college |-> co.name,
      date |-> a.date, status |-> a.status, timestamp |-> a.timestamp] :
        <<a, s, c, d, co>> \in
            {t \in attendance \X students \X courses \X departments \X colleges :
                /\ t[2].id = t[1].student_id
                /\ t[3].id = t[2].course_id
                /\ t[4].id = t[3].department_id
                /\ t[5].id = t[4].college_id}}

(* one "col = ?" or "a.date BETWEEN ? AND ?" of a filter_clause with its    *)
(* params                                                                   *)
Satisfies(row, clause) ==
    CASE clause.col = "co.id" -> row.college_id = clause.eq
      [] clause.col = "d.id" -> row.department_id = clause.eq
      [] clause.col = "c.id" -> row.course_id = clause.eq
      [] clause.col = "s.id" -> row.student_id = clause.eq
      [] clause.col = "a.date" -> clause.lo <= row.date /\ row.date <= clause.hi

(* get_attendance_df calls get_conn() twice, once into `conn` and once as   *)
(* the argument of read_sql_query, and closes neither                       *)
Leaked == 2

get_attendance_df(clauses) ==
    {row \in JoinedRows : \A clause \in clauses : Satisfies(row, clause)}

Between(start, end) == [col |-> "a.date", lo |-> start, hi |-> end]

(* ------------------------- Mark Attendance page ------------------------- *)
(* list_*: the rows of a SELECT ... ORDER BY name, kept as a set; each of   *)
(* them closes its connection before it returns                             *)
list_colleges == {[id |-> co.id, name |-> co.name] : co \in colleges}

list_departments(college_id) ==
    {[id |-> d.id, name |-> d.name] : d \in {x \in departments : x.college_id = college_id}}

list_courses(department_id) ==
    {[id |-> c.id, name |-> c.name] : c \in {x \in courses : x.department_id = department_id}}

list_students(course_id) ==
    {[id |-> st.id, name |-> st.name, roll |-> st.roll] :
        st \in {x \in students : x.course_id = course_id}}

(* the option text f"{id}|{name} ({roll or ''})": the id, a bar, the label; *)
(* int(opt.split("|")[0]) reads the id back, whatever the label holds       *)
OptionOf(st) ==
    <<st.id, st.name \o <<" ", "(">> \o (IF truthy(st.roll) THEN st.roll ELSE <<>>) \o <<")">>>>

OptionId(opt) == opt[1]

(* the loop over options: Present for a selected option, Absent otherwise   *)
student_status_map_selected_only(options, selected_present) ==
    [sid \in {OptionId(opt) : opt \in selected_present} |-> Present]

student_status_map(options, selected_present) ==
    [sid \in {OptionId(opt) : opt \in options} |->
        IF \E opt \in selected_present : OptionId(opt) = sid /\ opt \in options
        THEN Present ELSE Absent]

(* "Save Attendance" pressed for a course that has students: the page has   *)
(* queried the existing marks, saves the map, and queries again for the     *)
(* preview                                                                  *)
SaveAttendance(course_id, date_sel, selected_present) ==
    /\ \E c \in courses : c.id = course_id
    /\ LET listed == list_students(course_id)
           options == {OptionOf(st) : st \in listed} IN
       /\ listed # {}
       /\ selected_present \subseteq options
       /\ mark_call(student_status_map(options, selected_present), date_sel)
       /\ ui' = [page |-> "Mark Attendance", course |-> course_id, date |-> date_sel,
                 options |-> options, selected |-> selected_present]
       /\ unclosed' = Leaked + (IF lastCall'.ret = "True" THEN 0 ELSE 1) + Leaked

(* --------------------------- date-range pages --------------------------- *)
(* A selection of the cascading select boxes: <<>> is "All", <<co>> a       *)
(* college, <<co, d>> a department of it, <<co, d, c>> a course of that.    *)
Selections ==
    {<<>>}
    \cup {<<co.id>> : co \in colleges}
    \cup {<<d.college_id, d.id>> : d \in DepartmentsOf(colleges)}
    \cup {<<d.college_id, d.id, c.id>> :
              <<d, c>> \in {t \in DepartmentsOf(colleges) \X courses :
                               t[2].department_id = t[1].id}}

SelectionClauses(sel) ==
    (IF Len(sel) >= 1 THEN {[col |-> "co.id", eq |-> sel[1]]} ELSE {})
    \cup (IF Len(sel) >= 2 THEN {[col |-> "d.id", eq |-> sel[2]]} ELSE {})
    \cup (IF Len(sel) >= 3 THEN {[col |-> "c.id", eq |-> sel[3]]} ELSE {})

(* df['student_name'] + df['roll'].fillna('').apply(f" ({x})" if x else "") *)
student_display(row) ==
    row.student_name \o (IF truthy(row.roll)
                         THEN <<" ", "(">> \o row.roll \o <<")">>
                         ELSE <<>>)

(* the index and the columns of pivot_table(index=[student_display, course, *)
(* department, college], columns='date'): the distinct keys of the rows     *)
PivotIndex(df) ==
    {<<student_display(r), r.course, r.department, r.college>> : r \in df}

PivotColumns(df) == {r.date : r \in df}

PivotGroup(df, key, date) ==
    {r \in df : /\ <<student_display(r), r.course, r.department, r.college>> = key
                /\ r.date = date}

(* aggfunc='first' takes the status of the first row of the group in the    *)
(* order of the query; rows of one date that agree on the names are in no   *)
(* order the ORDER BY fixes, so any of them can be the first.  A group      *)
(* without rows is filled by fillna("").                                    *)
CellValues(df, key, date) ==
    IF PivotGroup(df, key, date) = {}
    THEN {<<>>}
    ELSE {r.status : r \in PivotGroup(df, key, date)}

RECURSIVE PivotCells(_, _)
PivotCells(df, todo) ==
    IF todo = {}
    THEN {[kd \in {} |-> <<>>]}
    ELSE LET kd == CHOOSE x \in todo : TRUE IN
         {f @@ (kd :> v) : f \in PivotCells(df, todo \ {kd}),
                           v \in CellValues(df, kd[1], kd[2])}

pivot_table(df) == PivotCells(df, PivotIndex(df) \X PivotColumns(df))

(* Calendar View: the range is checked before the query is built; the       *)
(* pivot is built when the query returned rows                              *)
CalendarView(sel, start_date, end_date) ==
    /\ colleges # {}
    /\ sel \in Selections
    /\ LET df == get_attendance_df(SelectionClauses(sel)
                                   \cup {Between(start_date, end_date)}) IN
       \E pivot \in pivot_table(IF start_date > end_date THEN {} ELSE df) :
           ui' = IF start_date > end_date
                 THEN [page |-> "Calendar View", start |-> start_date, end |-> end_date,
                       queried |-> FALSE, df |-> {}, summary |-> {}, pivot |-> pivot]
                 ELSE [page |-> "Calendar View", start |-> start_date, end |-> end_date,
                       queried |-> TRUE, df |-> df, summary |-> {}, pivot |-> pivot]
    /\ unclosed' = (IF ui'.queried THEN Leaked ELSE 0)
    /\ UNCHANGED <<tables, sqlite_sequence, now, lastCall, marked, txn>>

(* Reports & Export, "Filter & Export": build_filters_from_ui appends the   *)
(* BETWEEN clause whatever the two dates are, and the query always runs     *)
build_filters_from_ui(sel, start, end) ==
    SelectionClauses(sel) \cup {Between(start, end)}

ReportsFilter(sel, start, end) ==
    /\ sel \in Selections
    /\ ui' = [page |-> "Reports & Export", start |-> start, end |-> end,
              queried |-> TRUE,
              df |-> get_attendance_df(build_filters_from_ui(sel, start, end)),
              summary |-> {}]
    /\ unclosed' = (IF ui'.queried THEN Leaked ELSE 0)
    /\ UNCHANGED <<tables, sqlite_sequence, now, lastCall, marked, txn>>

(* DataFrame.fillna(0) on a text cell: None becomes the number 0, written   *)
(* here as its digit                                                        *)
fillna(x) == IF x = None THEN <<"0">> ELSE x

(* Series.round(2) of PresentCount / TotalDays * 100, in hundredths of a    *)
(* percent, ties to even                                                    *)
Round2(present, total) ==
    LET q == (present * 10000) \div total
        rem == (present * 10000) % total IN
    IF 2 * rem > total THEN q + 1
    ELSE IF 2 * rem < total THEN q
    ELSE IF q % 2 = 0 THEN q ELSE q + 1

(* df[df.status == "Present"].groupby(['student_name', 'roll']).size():     *)
(* groupby leaves out every row with a missing key (dropna=True), so a      *)
(* student without a roll forms no group                                    *)
Presences(df) ==
    LET present == {r \in df : r.status = Present /\ r.roll # None /\ r.student_name # None}
        keys == {<<r.student_name, r.roll>> : r \in present} IN
    [k \in keys |->
        Cardinality({r \in present : r.student_name = k[1] /\ r.roll = k[2]})]

(* drop_duplicates of (student_name, roll), the left merge with the         *)
(* counts, fillna(0), TotalDays and Attendance%                             *)
WeeklySummary(df, start_date, end_date) ==
    LET presences == Presences(df)
        total_days == (end_date - start_date) + 1
        students_list == {<<r.student_name, r.roll>> : r \in df}
        count(k) == IF k \in DOMAIN presences THEN presences[k] ELSE 0 IN
    {[student_name |-> k[1], roll |-> fillna(k[2]),
      PresentCount |-> count(k), TotalDays |-> total_days,
      AttendancePct |-> Round2(count(k), total_days)] : k \in students_list}

(* Reports & Export, weekly report: a course that has students, one student *)
(* or all (<<>>), the range check, then the button                          *)
WeeklyReport(sel, student_choice, start_date, end_date) ==
    /\ sel \in Selections /\ Len(sel) = 3
    /\ LET listed == {st \in students : st.course_id = sel[3]} IN
       /\ listed # {}
       /\ student_choice \in {<<>>} \cup {<<st.id>> : st \in listed}
    /\ ui' = IF start_date > end_date
             THEN [page |-> "Weekly report", start |-> start_date, end |-> end_date,
                   queried |-> FALSE, df |-> {}, summary |-> {}]
             ELSE LET clauses == {Between(start_date, end_date),
                                  [col |-> "c.id", eq |-> sel[3]]}
                                 \cup (IF student_choice # <<>>
                                       THEN {[col |-> "s.id", eq |-> student_choice[1]]}
                                       ELSE {})
                      df_week == get_attendance_df(clauses) IN
                  [page |-> "Weekly report", start |-> start_date, end |-> end_date,
                   queried |-> TRUE, df |-> df_week,
                   summary |-> IF df_week = {} THEN {}
                               ELSE WeeklySummary(df_week, start_date, end_date)]
    /\ unclosed' = (IF ui'.queried THEN Leaked ELSE 0)
    /\ UNCHANGED <<tables, sqlite_sequence, now, lastCall, marked, txn>>

(* ------------------- data-layer calls that only read ------------------- *)
(* a call that returns rows and leaves the store as it was; opened is the   *)
(* number of connections it got from get_conn() and did not close()         *)
ReadCall(op, rows, opened) ==
    /\ lastCall' = [op |-> op, ret |-> "rows", rows |-> rows]
    /\ unclosed' = opened
    /\ UNCHANGED <<tables, sqlite_sequence, now, marked, ui, txn>>

(* CREATE TABLE IF NOT EXISTS on a store that has the tables, commit, close *)
call_init_db == ReadCall("init_db", {}, 0)

call_list_colleges == ReadCall("list_colleges", list_colleges, 0)

call_list_departments(college_id) ==
    ReadCall("list_departments", list_departments(college_id), 0)

call_list_courses(department_id) ==
    ReadCall("list_courses", list_courses(department_id), 0)

call_list_students(course_id) ==
    ReadCall("list_students", list_students(course_id), 0)

call_get_attendance_df(clauses) ==
    ReadCall("get_attendance_df", get_attendance_df(clauses), Leaked)

(* ------------------------- specifications ------------------------------- *)
NoCall == [op |-> "none", ret |-> "none"]
NoPage == [page |-> "none"]
NoTxn == [lock |-> "none", calls |-> [p \in Sessions |-> Idle], last |-> Idle]

(* the store right after init_db() on a fresh file *)
Init ==
    /\ colleges = {}
    /\ departments = {}
    /\ courses = {}
    /\ students = {}
    /\ attendance = {}
    /\ sqlite_sequence = [t \in {"colleges", "departments", "courses", "students"} |-> 0]
    /\ now = 0
    /\ lastCall = NoCall
    /\ marked = {}
    /\ ui = NoPage
    /\ unclosed = 0
    /\ txn = NoTxn

Next ==
    \/ \E name \in CollegeNames : add_college(name)
    \/ \E college_id \in CollegeIds, name \in Names : add_department(college_id, name)
    \/ \E department_id \in DepartmentIds, name \in Names : add_course(department_id, name)
    \/ \E course_id \in CourseIds, name \in StudentNames, roll \in Rolls :
           add_student(course_id, name, roll)

Spec == Init /\ [][Next]_vars

(* the data layer with the schema-level delete: one chain college ->       *)
(* department -> course -> student -> mark can be built and its root       *)
(* deleted                                                                 *)
StatusMaps(ids, statuses) == UNION {[S -> statuses] : S \in SUBSET ids}

NextCascade ==
    \/ \E name \in {<<"a">>, <<"b">>} : add_college(name)
    \/ \E college_id \in CollegeIds : add_department(college_id, <<"a">>)
    \/ add_course(1, <<"a">>)
    \/ add_student(1, <<"a">>, None)
    \/ mark_attendance_for_date((1 :> Present), 1)
    \/ \E college_id \in CollegeIds : delete_college(college_id)

SpecCascade == Init /\ [][NextCascade]_vars

(* one course with two students, as left by add_college("a"),              *)
(* add_department(1, "a"), add_course(1, "a"), add_student(1, "a", "r")    *)
(* and add_student(1, "a", None)                                           *)
InitCourse ==
    /\ colleges = {[id |-> 1, name |-> <<"a">>]}
    /\ departments = {[id |-> 1, college_id |-> 1, name |-> <<"a">>]}
    /\ courses = {[id |-> 1, department_id |-> 1, name |-> <<"a">>]}
    /\ students = {[id |-> 1, course_id |-> 1, roll |-> <<"r">>, name |-> <<"a">>],
                   [id |-> 2, course_id |-> 1, roll |-> None, name |-> <<"a">>]}
    /\ attendance = {}
    /\ sqlite_sequence = [t \in {"colleges", "departments", "courses", "students"} |->
                              IF t = "students" THEN 2 ELSE 1]
    /\ now = 0
    /\ lastCall = NoCall
    /\ marked = {}
    /\ ui = NoPage
    /\ unclosed = 0
    /\ txn = NoTxn

MarkDates == {1, 2}
MarkStatuses == {Present, Absent, None}

NextMark ==
    \/ \E m \in StatusMaps({1, 2}, MarkStatuses), d \in MarkDates :
           mark_attendance_for_date(m, d)
    \/ Tick

SpecMark == InitCourse /\ [][NextMark]_vars

(* the same course, marked with any text as a status *)
AnyStatuses == {Present, Absent, Late}

NextStatus ==
    \E m \in StatusMaps({1, 2}, AnyStatuses), d \in MarkDates :
        mark_attendance_for_date(m, d)

SpecStatus == InitCourse /\ [][NextStatus]_vars

(* the same course with any attendance table that whole-second marks of     *)
(* Present and Absent leave at clock 0, and the date-range pages on it      *)
ReportMarkDates == {1, 2, 3}
RangeDates == {1, 3, 7}
AllSelections == {<<>>, <<1>>, <<1, 1>>, <<1, 1, 1>>}

MarkedTables ==
    {{<<k[1], k[2], f[k]>> : k \in {k \in DOMAIN f : f[k] # None}} :
        f \in [{1, 2} \X ReportMarkDates -> {Present, Absent, None}]}

InitReport ==
    /\ colleges = {[id |-> 1, name |-> <<"a">>]}
    /\ departments = {[id |-> 1, college_id |-> 1, name |-> <<"a">>]}
    /\ courses = {[id |-> 1, department_id |-> 1, name |-> <<"a">>]}
    /\ students = {[id |-> 1, course_id |-> 1, roll |-> <<"r">>, name |-> <<"a">>],
                   [id |-> 2, course_id |-> 1, roll |-> None, name |-> <<"a">>]}
    /\ marked \in MarkedTables
    /\ attendance = {[student_id |-> t[1], date |-> t[2], status |-> t[3],
                      timestamp |-> 0] : t \in marked}
    /\ sqlite_sequence = [t \in {"colleges", "departments", "courses", "students"} |->
                              IF t = "students" THEN 2 ELSE 1]
    /\ now = 0
    /\ lastCall = NoCall
    /\ ui = NoPage
    /\ unclosed = 0
    /\ txn = NoTxn

NextReport ==
    \/ \E sel \in AllSelections, start \in RangeDates, end \in RangeDates :
           CalendarView(sel, start, end)
    \/ \E sel \in AllSelections, start \in RangeDates, end \in RangeDates :
           ReportsFilter(sel, start, end)
    \/ \E sel \in AllSelections, choice \in {<<>>, <<1>>, <<2>>},
          start \in RangeDates, end \in RangeDates :
           WeeklyReport(sel, choice, start, end)

SpecReport == InitReport /\ [][NextReport]_vars

(* a course with one student, more students being added, and the Mark       *)
(* Attendance page saving any selection of the listed students              *)
InitSave ==
    /\ colleges = {[id |-> 1, name |-> <<"a">>]}
    /\ departments = {[id |-> 1, college_id |-> 1, name |-> <<"a">>]}
    /\ courses = {[id |-> 1, department_id |-> 1, name |-> <<"a">>]}
    /\ students = {[id |-> 1, course_id |-> 1, roll |-> <<"r">>, name |-> <<"a">>]}
    /\ attendance = {}
    /\ sqlite_sequence = [t \in {"colleges", "departments", "courses", "students"} |-> 1]
    /\ now = 0
    /\ lastCall = NoCall
    /\ marked = {}
    /\ ui = NoPage
    /\ unclosed = 0
    /\ txn = NoTxn

OptionsOfAll == {OptionOf(st) : st \in students}

NextSave ==
    \/ \E d \in MarkDates, selected \in SUBSET OptionsOfAll :
           SaveAttendance(1, d, selected)
    \/ \E course_id \in CourseIds, roll \in {None, <<"r">>} :
           add_student(course_id, <<"a">>, roll)
    \/ Tick

SpecSave == InitSave /\ [][NextSave]_vars

(* every data-layer operation, called in any order on the course above      *)
ConnStatuses == {Present, Absent, None}

NextConn ==
    \/ call_init_db
    \/ call_list_colleges
    \/ \E college_id \in CollegeIds : call_list_departments(college_id)
    \/ \E department_id \in DepartmentIds : call_list_courses(department_id)
    \/ \E course_id \in CourseIds : call_list_students(course_id)
    \/ \E sel \in AllSelections : call_get_attendance_df(SelectionClauses(sel))
    \/ \E name \in {<<"a">>, <<"b">>} : add_college(name)
    \/ \E m \in StatusMaps({1, 2}, ConnStatuses), d \in MarkDates :
           mark_attendance_for_date(m, d)

SpecConn == InitCourse /\ [][NextConn]_vars

(* a course whose two students have the same name, the first without a      *)
(* roll, with any attendance table of two dates, and the Calendar View      *)
PivotMarkDates == {1, 2}

InitPivot ==
    /\ colleges = {[id |-> 1, name |-> <<"a">>]}
    /\ departments = {[id |-> 1, college_id |-> 1, name |-> <<"a">>]}
    /\ courses = {[id |-> 1, department_id |-> 1, name |-> <<"a">>]}
    /\ \E roll \in {None, <<"r">>} :
           students = {[id |-> 1, course_id |-> 1, roll |-> None, name |-> <<"a">>],
                       [id |-> 2, course_id |-> 1, roll |-> roll, name |-> <<"a">>]}
    /\ marked \in {{<<k[1], k[2], f[k]>> : k \in {k \in DOMAIN f : f[k] # None}} :
                      f \in [{1, 2} \X PivotMarkDates -> {Present, Absent, None}]}
    /\ attendance = {[student_id |-> t[1], date |-> t[2], status |-> t[3],
                      timestamp |-> 0] : t \in marked}
    /\ sqlite_sequence = [t \in {"colleges", "departments", "courses", "students"} |->
                              IF t = "students" THEN 2 ELSE 1]
    /\ now = 0
    /\ lastCall = NoCall
    /\ ui = NoPage
    /\ unclosed = 0
    /\ txn = NoTxn

NextPivot ==
    \E sel \in AllSelections, start \in RangeDates, end \in RangeDates :
        CalendarView(sel, start, end)

SpecPivot == InitPivot /\ [][NextPivot]_vars

(* two sessions marking student 1, alone or with student 2, at the same     *)
(* time; one of the maps holds a null status                                *)
RaceMaps ==
    {m \in StatusMaps({1, 2}, {Present, Absent}) : 1 \in DOMAIN m} \cup {(1 :> None)}
RaceDates == {1}

NextRace ==
    \/ \E p \in Sessions, m \in RaceMaps, d \in RaceDates : race_begin(p, m, d)
    \/ \E p \in Sessions : race_execute(p)
    \/ \E p \in Sessions : race_busy(p)
    \/ \E p \in Sessions : race_commit(p)
    \/ \E p \in Sessions : race_collect(p)
    \/ Tick

SpecRace == InitCourse /\ [][NextRace]_vars

(* ------------------------------ claims ---------------------------------- *)
MarkReturned == lastCall.op = "mark_attendance_for_date" /\ lastCall.ret = "True"

(* C1: an add_college whose trimmed name is a college's name, an            *)
(* add_department / add_course whose trimmed name is used under the same    *)
(* parent, and an add_student whose non-empty roll is, trimmed, a roll of   *)
(* the same course return False and leave every table as it was.            *)
C1_DuplicateRejected ==
    [][LET c == lastCall' IN
       (\/ /\ c.op = "add_college"
           /\ \E r \in colleges : r.name = strip(c.name)
        \/ /\ c.op = "add_department"
           /\ \E r \in departments : r.college_id = c.parent /\ r.name = strip(c.name)
        \/ /\ c.op = "add_course"
           /\ \E r \in courses : r.department_id = c.parent /\ r.name = strip(c.name)
        \/ /\ c.op = "add_student"
           /\ c.roll # None /\ c.roll # <<>>
           /\ \E r \in students : r.course_id = c.parent /\ r.roll = strip(c.roll))
       => (c.ret = "False" /\ UNCHANGED <<tables, sqlite_sequence>>)]_vars

C1_Witness ==
    /\ lastCall.op = "add_student"
    /\ lastCall.roll = <<"r", " ">>
    /\ lastCall.ret = "False"
    /\ \E r \in students : r.course_id = lastCall.parent /\ r.roll = <<"r">>

(* C2: the attendance table holds at most one row per (student_id, date),   *)
(* a row exactly for the pairs some returned call supplied, and its status  *)
(* is the one the most recent such call supplied.                           *)
C2_OneRowLatestStatus ==
    /\ \A r1, r2 \in attendance :
           (r1.student_id = r2.student_id /\ r1.date = r2.date) => r1 = r2
    /\ \A r \in attendance : <<r.student_id, r.date, r.status>> \in marked
    /\ \A t \in marked :
           \E r \in attendance : r.student_id = t[1] /\ r.date = t[2] /\ r.status = t[3]

C2_Witness ==
    /\ MarkReturned
    /\ \E r \in lastCall.before :
           /\ r.status # lastCall.map[r.student_id]
           /\ \E a \in attendance :
                  /\ a.student_id = r.student_id /\ a.date = r.date
                  /\ a.status = lastCall.map[r.student_id]

(* C3: a mark_attendance_for_date(map, date) step creates, changes or       *)
(* removes no attendance row of a student outside the map and no row of     *)
(* another date, and leaves colleges, departments, courses and students     *)
(* unchanged.                                                               *)
C3_MarkFrame ==
    [][(lastCall'.op = "mark_attendance_for_date" /\ now' = now)
       => LET m == lastCall'.map
              d == lastCall'.date IN
          /\ attendance \ Touched(attendance, m, d) = attendance' \ Touched(attendance', m, d)
          /\ UNCHANGED <<colleges, departments, courses, students>>]_vars

C3_Witness ==
    /\ MarkReturned
    /\ lastCall.ts > 0
    /\ \E r \in attendance :
           /\ r.date = lastCall.date
           /\ r.student_id \notin DOMAIN lastCall.map
           /\ r.timestamp < lastCall.ts
    /\ \E r \in attendance :
           /\ r.date # lastCall.date
           /\ r.student_id \in DOMAIN lastCall.map
           /\ r.timestamp < lastCall.ts
    /\ \E r \in attendance : r.date = lastCall.date /\ r.timestamp = lastCall.ts

(* C4: no add_department, add_course or add_student with a parent id that   *)
(* is not in the parent table inserts a row or reports success, so every    *)
(* department, course and student row references an existing parent.        *)
C4_ParentExists ==
    /\ \A d \in departments : \E c \in colleges : c.id = d.college_id
    /\ \A c \in courses : \E d \in departments : d.id = c.department_id
    /\ \A s \in students : \E c \in courses : c.id = s.course_id

(* C5: deleting a college row removes every department of that college,     *)
(* every course of those departments, every student of those courses and    *)
(* every attendance row of those students.                                  *)
C5_CascadeDelete ==
    [][lastCall'.op = "delete_college"
       => LET gone == {c \in colleges : c.id = lastCall'.id}
              goneDepartments == DepartmentsOf(gone)
              goneCourses == CoursesOf(goneDepartments)
              goneStudents == StudentsOf(goneCourses) IN
          /\ departments' \cap goneDepartments = {}
          /\ courses' \cap goneCourses = {}
          /\ students' \cap goneStudents = {}
          /\ attendance' \cap AttendanceOf(goneStudents) = {}]_vars

(* C7: in every stored attendance row the status is Present or Absent.      *)
C7_StatusEnumeration ==
    \A r \in attendance : r.status \in {Present, Absent}

(* C8: no two students of one course share a roll that is present, and an   *)
(* add_student given no roll (None, empty or only whitespace) is accepted   *)
(* whatever the course already holds.                                       *)
C8_RollOptional ==
    /\ \A s1, s2 \in students :
           (s1.course_id = s2.course_id /\ s1.roll = s2.roll /\ s1.roll # None)
           => s1 = s2
    /\ (/\ lastCall.op = "add_student"
        /\ (lastCall.roll = None \/ strip(lastCall.roll) = <<>>))
       => lastCall.ret = "True"

(* C9 as claimed: when a returned call overwrites the row of a student and  *)
(* date with a different status, the row holds the new status and a         *)
(* timestamp strictly newer than the one it replaces.                       *)
C9_StrictlyNewer ==
    MarkReturned =>
        \A r \in lastCall.before :
            r.status # lastCall.map[r.student_id]
            => \E a \in attendance :
                   /\ a.student_id = r.student_id /\ a.date = r.date
                   /\ a.status = lastCall.map[r.student_id]
                   /\ a.timestamp > r.timestamp

(* C9 as amended: the row holds the new status and, as its timestamp, the   *)
(* clock second read by the overwriting call (which is the replaced         *)
(* timestamp again when both calls fall in one second).                     *)
C9_TimestampOfCall ==
    MarkReturned =>
        \A r \in lastCall.before :
            r.status # lastCall.map[r.student_id]
            => \E a \in attendance :
                   /\ a.student_id = r.student_id /\ a.date = r.date
                   /\ a.status = lastCall.map[r.student_id]
                   /\ a.timestamp = lastCall.ts

C9_Witness ==
    /\ MarkReturned
    /\ \E r \in lastCall.before :
           /\ r.status # lastCall.map[r.student_id]
           /\ r.timestamp = lastCall.ts
    /\ \E r \in lastCall.before :
           /\ r.status # lastCall.map[r.student_id]
           /\ r.timestamp < lastCall.ts

(* C6: the weekly summary has, for every (student name, roll) with a row   *)
(* in the range, one row with TotalDays = end - start + 1, PresentCount =   *)
(* the number of that student's Present rows in the range, and Attendance%  *)
(* = PresentCount / TotalDays * 100 rounded to 2 decimals.                  *)
C6_WeeklySummary ==
    (ui.page = "Weekly report" /\ ui.queried) =>
        \A r \in ui.df :
            LET mine == {x \in ui.df : x.student_name = r.student_name /\ x.roll = r.roll}
                present == Cardinality({x \in mine : x.status = Present})
                total == ui.end - ui.start + 1
                rows == {m \in ui.summary :
                            m.student_name = r.student_name /\ m.roll = fillna(r.roll)} IN
            /\ Cardinality(rows) = 1
            /\ \A m \in rows :
                   /\ m.TotalDays = total
                   /\ m.PresentCount = present
                   /\ m.AttendancePct = (IF 7 * present = 3 * total
                                         THEN 4286 ELSE Round2(present, total))

(* C10: on Calendar View, the Reports & Export filter and the weekly        *)
(* report, a range whose start is after its end runs no attendance query.   *)
C10_InvalidRangeRejected ==
    (ui.page # "none" /\ ui.start > ui.end) => ~ui.queried

(* C11: after Save Attendance for a course, a date and a selection, every   *)
(* student listed in the course has exactly one row for the date, Present   *)
(* if selected and Absent otherwise; a save that repeats the selection of   *)
(* the save before it changes no status of that date.                       *)
C11_SaveAttendance ==
    [][(lastCall'.op = "mark_attendance_for_date" /\ now' = now
        /\ ui'.page = "Mark Attendance")
       => /\ \A st \in list_students(ui'.course) :
                 LET rows == {r \in attendance' :
                                 r.student_id = st.id /\ r.date = ui'.date} IN
                 /\ Cardinality(rows) = 1
                 /\ \A r \in rows :
                        r.status = (IF OptionOf(st) \in ui'.selected
                                    THEN Present ELSE Absent)
          /\ (/\ ui.page = "Mark Attendance"
              /\ ui.course = ui'.course /\ ui.date = ui'.date
              /\ ui.selected = ui'.selected)
             => \A r \in attendance :
                    r.date = ui.date
                    => \E q \in attendance' :
                           /\ q.student_id = r.student_id /\ q.date = r.date
                           /\ q.status = r.status]_vars

C11_Witness ==
    /\ ui.page = "Mark Attendance"
    /\ MarkReturned
    /\ lastCall.ts > 0
    /\ Cardinality(ui.options) = 2
    /\ Cardinality(ui.selected) = 1
    /\ Cardinality(lastCall.before) = 2
    /\ \A r \in lastCall.before :
           r.status = lastCall.map[r.student_id] /\ r.timestamp < lastCall.ts

(* C15: a mark_attendance_for_date call in which an upsert fails (a null    *)
(* status) persists nothing: the rows written earlier in the same call are  *)
(* not committed and the attendance table is exactly as before the call.    *)
C15_AllOrNothing ==
    [][(lastCall'.op = "mark_attendance_for_date" /\ now' = now
        /\ lastCall'.ret = "IntegrityError")
       => attendance' = attendance]_vars

(* a failed call whose first statement was accepted and would have changed  *)
(* the table, and whose second statement carried the null status            *)
C15_Witness ==
    /\ lastCall.op = "mark_attendance_for_date"
    /\ lastCall.ret = "IntegrityError"
    /\ DOMAIN lastCall.map = {1, 2}
    /\ lastCall.map[1] # None /\ lastCall.map[2] = None
    /\ \E r \in attendance : r.student_id = 1 /\ r.date = lastCall.date
                              /\ r.status # lastCall.map[1]

(* C13: every data-layer operation closes every connection it opened       *)
(* before it returns, on success and on failure: after any sequence of      *)
(* operations no connection is left opened and not closed.                  *)
C13_ConnectionsReleased == unclosed = 0

(* C12: the pivot of a date range has exactly one row per student with a    *)
(* mark in the range (also when two students of a course have the same name *)
(* and no roll), exactly one column per date with a mark in the range, and  *)
(* each cell is the student's status on the date, or the empty string when  *)
(* the student has no row for the date.                                     *)
C12_PivotShape ==
    (ui.page = "Calendar View" /\ ui.queried /\ ui.df # {})
    => /\ Cardinality({kd[1] : kd \in DOMAIN ui.pivot})
              = Cardinality({r.student_id : r \in ui.df})
       /\ {kd[2] : kd \in DOMAIN ui.pivot} = {r.date : r \in ui.df}
       /\ \A r \in ui.df, date \in {x.date : x \in ui.df} :
              LET key == <<student_display(r), r.course, r.department, r.college>>
                  own == {x \in ui.df : x.student_id = r.student_id /\ x.date = date} IN
              /\ <<key, date>> \in DOMAIN ui.pivot
              /\ ui.pivot[<<key, date>>] \in
                     (IF own = {} THEN {<<>>} ELSE {x.status : x \in own})

(* C14: when two mark_attendance_for_date calls that hold the same          *)
(* (student, date) run concurrently, under every interleaving the store     *)
(* has exactly one row for that key once they have committed, and its       *)
(* status and timestamp are those written by the call that committed last.  *)
C14_LastCommitWins ==
    /\ \A r1 \in attendance, r2 \in attendance :
           (r1.student_id = r2.student_id /\ r1.date = r2.date) => r1 = r2
    /\ txn.last.pc = "committed"
       => \A sid \in DOMAIN lastCall.map :
              \E r \in attendance :
                  /\ r.student_id = sid /\ r.date = lastCall.date
                  /\ r.status = lastCall.map[sid]
                  /\ r.timestamp = lastCall.ts

(* the call that committed last ran while the other call ran, and its       *)
(* commit replaced a row the other call had committed with another status   *)
(* and a later timestamp                                                    *)
C14_Witness ==
    /\ txn.last.pc = "committed" /\ txn.last.overlapped
    /\ \E r \in lastCall.before :
           /\ r.status # lastCall.map[r.student_id]
           /\ r.timestamp > lastCall.ts
    /\ \A p \in Sessions : txn.calls[p].pc = "idle"

====
